---- MODULE Spec2Model ----
(***************************************************************************)
(* Model of go-aws-forecast-example (src/main.go): the Forecast helper     *)
(* methods skipIfAlreadyExists, waitForActive and waitForDeleted, the      *)
(* Create* and Delete* methods built on them, and main, which runs them in *)
(* a fixed order and exits through log.Fatal on the first error it sees.   *)
(*                                                                         *)
(* Go strings are TLA+ strings, a nil pointer and a nil error are the      *)
(* strings NilPtr and NilErr.  The remote service is the environment: the  *)
(* outcome of every Create, Describe and Delete call is an input.          *)
(*                                                                         *)
(* The specifications share the variables:                                 *)
(*   Spec         main, with its context.Background() (never cancelled);   *)
(*   Harness      one call of skipIfAlreadyExists, waitForActive or        *)
(*                waitForDeleted with arbitrary arguments, poll results    *)
(*                and cancellation timing;                                 *)
(*   HarnessFair  Harness with the fairness of the select statement.       *)
(***************************************************************************)
EXTENDS Naturals, Sequences, FiniteSets, TLC

\* Largest number of polls one waiter makes in the model (the code has no limit).
MaxPolls == 3

NilPtr == "<nil>"
NilErr == "<nil error>"

\* Error kinds of the service API, told apart by errors.As.
AlreadyExists == "ResourceAlreadyExistsException"
NotFound == "ResourceNotFoundException"
OtherErr == "InvalidInputException"
ApiErrors == {AlreadyExists, NotFound, OtherErr}

\* Error of a call made with a cancelled context.
CtxCanceled == "context canceled"

\* Statuses the service reports.
Statuses ==
    {"ACTIVE", "CREATE_PENDING", "CREATE_IN_PROGRESS", "CREATE_FAILED",
     "CREATE_STOPPED", "DELETE_PENDING", "DELETE_IN_PROGRESS", "DELETE_FAILED",
     "SUSPENDED"}

Resources ==
    {"dataset", "dataset-import-job", "dataset-group", "predictor", "forecast",
     "forecast-export-job"}

\* strings.HasPrefix
HasPrefix(s, prefix) ==
    Len(s) >= Len(prefix) /\ SubSeq(s, 1, Len(prefix)) = prefix

\* fmt.Sprintf("arn:aws:forecast:%s:%s:%s/%s", region, account, resource, name)
SprintfArn(fregion, faccount, resource, name) ==
    "arn:aws:forecast:" \o fregion \o ":" \o faccount \o ":" \o resource \o "/" \o name

\* errors.As(err, &exists) with exists *types.ResourceAlreadyExistsException
IsAlreadyExists(e) == e = AlreadyExists

\* errors.As(err, &notFound) with notFound *types.ResourceNotFoundException
IsNotFound(e) == e = NotFound

\* Faulty variant of skipIfAlreadyExists: on "already exists" it hands back
\* the handle of the failed create function instead of building one.
skipIfAlreadyExistsSynth(fregion, faccount, resource, name, h) ==
    IF h.err # NilErr
    THEN IF IsAlreadyExists(h.err)
         THEN [arn |-> h.arn, err |-> NilErr]
         ELSE [arn |-> NilPtr, err |-> h.err]
    ELSE [arn |-> h.arn, err |-> NilErr]

\* Faulty variant of skipIfAlreadyExists: every error of the create function
\* is taken for "already exists".
skipIfAlreadyExistsAnyError(fregion, faccount, resource, name, h) ==
    IF h.err # NilErr
    THEN [arn |-> SprintfArn(fregion, faccount, resource, name), err |-> NilErr]
    ELSE [arn |-> h.arn, err |-> NilErr]

\* skipIfAlreadyExists, given the pair h() returned (h is called once).
skipIfAlreadyExists(fregion, faccount, resource, name, h) ==
    IF h.err # NilErr
    THEN IF IsAlreadyExists(h.err)
         THEN [arn |-> SprintfArn(fregion, faccount, resource, name), err |-> NilErr]
         ELSE [arn |-> NilPtr, err |-> h.err]
    ELSE [arn |-> h.arn, err |-> NilErr]

\* The calls of h one run of skipIfAlreadyExists makes: arn, err := h().
skipIfAlreadyExistsCalls == 1

\* Faulty variant of waitForActiveTick: no test for "CREATE_FAILED".
waitForActiveTickNoFailed(name, p) ==
    IF p.err # NilErr THEN [ret |-> TRUE, err |-> p.err]
    ELSE IF p.status = "ACTIVE" THEN [ret |-> TRUE, err |-> NilErr]
    ELSE IF ~HasPrefix(p.status, "CREATE")
         THEN [ret |-> TRUE, err |-> name \o " is not creating but " \o p.status]
    ELSE [ret |-> FALSE, err |-> NilErr]

\* Faulty variant of waitForActiveTick: the prefix test comes before (and so
\* replaces) the test for "ACTIVE".
waitForActiveTickPrefixFirst(name, p) ==
    IF p.err # NilErr THEN [ret |-> TRUE, err |-> p.err]
    ELSE IF ~HasPrefix(p.status, "CREATE")
         THEN [ret |-> TRUE, err |-> name \o " is not creating but " \o p.status]
    ELSE IF p.status = "CREATE_FAILED"
         THEN [ret |-> TRUE, err |-> "creating is failed"]
    ELSE [ret |-> FALSE, err |-> NilErr]

\* Faulty variant of waitForActiveTick: "not found" ends the wait in success,
\* as it does in waitForDeleted.
waitForActiveTickNotFoundOk(name, p) ==
    IF p.err # NilErr
    THEN IF IsNotFound(p.err)
         THEN [ret |-> TRUE, err |-> NilErr]
         ELSE [ret |-> TRUE, err |-> p.err]
    ELSE IF p.status = "ACTIVE" THEN [ret |-> TRUE, err |-> NilErr]
    ELSE IF ~HasPrefix(p.status, "CREATE")
         THEN [ret |-> TRUE, err |-> name \o " is not creating but " \o p.status]
    ELSE IF p.status = "CREATE_FAILED"
         THEN [ret |-> TRUE, err |-> "creating is failed"]
    ELSE [ret |-> FALSE, err |-> NilErr]

\* The body of waitForActive's ticker case for the poll result p = h():
\* ret says whether the waiter returns, err is what it returns.  The
\* remaining-minutes value only feeds a log line and is left out.
waitForActiveTick(name, p) ==
    IF p.err # NilErr THEN [ret |-> TRUE, err |-> p.err]
    ELSE IF p.status = "ACTIVE" THEN [ret |-> TRUE, err |-> NilErr]
    ELSE IF ~HasPrefix(p.status, "CREATE")
         THEN [ret |-> TRUE, err |-> name \o " is not creating but " \o p.status]
    ELSE IF p.status = "CREATE_FAILED"
         THEN [ret |-> TRUE, err |-> "creating is failed"]
    ELSE [ret |-> FALSE, err |-> NilErr]

\* Faulty variant of waitForDeletedTick: "not found" is an error like any other.
waitForDeletedTickNotFoundFails(name, p) ==
    IF p.err # NilErr THEN [ret |-> TRUE, err |-> p.err]
    ELSE IF ~HasPrefix(p.status, "DELETE")
         THEN [ret |-> TRUE, err |-> name \o " is not deleting but " \o p.status]
    ELSE IF p.status = "DELTE_FAILED"
         THEN [ret |-> TRUE, err |-> "deleting is failed"]
    ELSE [ret |-> FALSE, err |-> NilErr]

\* Faulty variant of waitForDeletedTick: no test of the status' prefix.
waitForDeletedTickNoPrefixTest(name, p) ==
    IF p.err # NilErr
    THEN IF IsNotFound(p.err)
         THEN [ret |-> TRUE, err |-> NilErr]
         ELSE [ret |-> TRUE, err |-> p.err]
    ELSE IF p.status = "DELTE_FAILED"
         THEN [ret |-> TRUE, err |-> "deleting is failed"]
    ELSE [ret |-> FALSE, err |-> NilErr]

\* The body of waitForDeleted's ticker case for the poll result p = h().  The
\* literal compared with the status is the code's, "DELTE_FAILED".
waitForDeletedTick(name, p) ==
    IF p.err # NilErr
    THEN IF IsNotFound(p.err)
         THEN [ret |-> TRUE, err |-> NilErr]
         ELSE [ret |-> TRUE, err |-> p.err]
    ELSE IF ~HasPrefix(p.status, "DELETE")
         THEN [ret |-> TRUE, err |-> name \o " is not deleting but " \o p.status]
    ELSE IF p.status = "DELTE_FAILED"
         THEN [ret |-> TRUE, err |-> "deleting is failed"]
    ELSE [ret |-> FALSE, err |-> NilErr]

\* Variant of ctxDoneReturn: the ctx.Done() case returns ctx.Err().
ctxDoneReturnErr == CtxCanceled

\* What both waiters return from the ctx.Done() case: nil.
ctxDoneReturn == NilErr

VARIABLES
    region, account,        \* Forecast.region, *Forecast.caller.Account
    pc,                     \* main: "call" | "wait" | "fatal" | "done"
    stage,                  \* index in Main of main's current (at the end: last) call
    arns,                   \* main's datasetArn .. forecastExportJobArn, by resource
    arn, err,               \* the waiting method's handle (local arn or parameter) and err
    fatalErr,               \* the argument of log.Fatal
    wkind, wname,           \* the running waiter: "active" | "deleted", its name
    wstate,                 \* "idle" | "polling" | "returned"
    wres,                   \* the waiter's return value
    tickC,                  \* ticks buffered in ticker.C (capacity 1)
    cancelled,              \* ctx.Done() is closed
    polls,                  \* calls of h made by the waiter
    lastPoll,               \* the last result of h
    sawActive,              \* some poll of this waiter reported "ACTIVE"
    wexit,                  \* the select case the waiter returned from
    cancelAt,               \* wstate at the moment ctx was cancelled
    log,                    \* the steps main has started, in order
    failedStep,             \* index in log of the first step that failed, 0 if none
    lastCall,               \* the last remote call and the handles passed to it
    created,                \* handle returned by each resource's create-or-skip
    delCount,               \* Delete calls issued, by resource
    usedAfterDelete,        \* <<resource, call, method>>: handle passed after its Delete
    skipIn, skipOut,        \* arguments and result of the last skipIfAlreadyExists
    hcalls,                 \* calls of the create function h that call made
    fired,                  \* ticks the waiter's ticker has sent into ticker.C
    pollLog                 \* harness: the results its poll function has returned

fvars == <<region, account>>
mvars == <<pc, stage, arns, arn, err, fatalErr>>
wvars == <<wkind, wname, wstate, wres, tickC, polls, lastPoll, sawActive, wexit, fired>>
cvars == <<cancelled, cancelAt>>
hvars == <<log, failedStep, lastCall, created, delCount, usedAfterDelete>>
svars == <<skipIn, skipOut, hcalls>>
vars == <<fvars, mvars, wvars, cvars, hvars, svars, pollLog>>

NoPoll == [status |-> NilPtr, err |-> NilErr]
NoCall == [op |-> "none", res |-> "none", by |-> "none", args |-> {}, err |-> NilErr]
NoSkip == [arn |-> NilPtr, err |-> NilErr]

(***************************************************************************)
(* The waiters: waitForActive and waitForDeleted share their loop, a       *)
(* select over ticker.C and ctx.Done(), and differ in the ticker case.     *)
(***************************************************************************)

\* Results of a poll function h: a status, or an error with a nil status.
PollResults ==
    [status : Statuses, err : {NilErr}]
        \cup [status : {NilPtr}, err : ApiErrors \cup {CtxCanceled}]

\* time.NewTicker(time.Minute * 1) on entry of a waiter: nothing polled yet.
StartWaiter(kind, name) ==
    /\ wkind' = kind
    /\ wname' = name
    /\ wstate' = "polling"
    /\ wres' = NilErr
    /\ tickC' = 0
    /\ polls' = 0
    /\ lastPoll' = NoPoll
    /\ sawActive' = FALSE
    /\ wexit' = "none"
    /\ fired' = 0

\* The ticker case of the running waiter, for the poll result p.
TickBody(p) ==
    IF wkind = "active" THEN waitForActiveTick(wname, p)
    ELSE waitForDeletedTick(wname, p)

\* select takes <-ticker.C: one call of h, then the case's body.
HandleTick(p) ==
    /\ wstate = "polling"
    /\ tickC = 1
    /\ polls < MaxPolls
    /\ tickC' = 0
    /\ polls' = polls + 1
    /\ lastPoll' = p
    /\ sawActive' = (sawActive \/ p.status = "ACTIVE")
    /\ IF TickBody(p).ret
       THEN wstate' = "returned" /\ wres' = TickBody(p).err /\ wexit' = "ticker.C"
       ELSE UNCHANGED <<wstate, wres, wexit>>
    /\ UNCHANGED <<wkind, wname, fired>>

\* select takes <-ctx.Done(): possible as soon as the context is cancelled,
\* also when a tick is ready at the same time (select then picks either).
HandleDone ==
    /\ wstate = "polling"
    /\ cancelled
    /\ wstate' = "returned"
    /\ wres' = ctxDoneReturn
    /\ wexit' = "ctx.Done"
    /\ UNCHANGED <<wkind, wname, tickC, polls, lastPoll, sawActive, fired>>

\* The runtime timer sends a tick; a tick is dropped while one is buffered.
TimerFire ==
    /\ wstate = "polling"
    /\ tickC = 0
    /\ tickC' = 1
    /\ fired' = fired + 1
    /\ UNCHANGED <<wkind, wname, wstate, wres, polls, lastPoll, sawActive, wexit>>
    /\ UNCHANGED <<fvars, mvars, cvars, hvars, svars, pollLog>>

(***************************************************************************)
(* Harness: one call of a helper with arbitrary arguments.                 *)
(***************************************************************************)

Regions == {"us-east-1", "ap-northeast-1"}
Accounts == {"111122223333", "524580158183"}
SkipResources == {"dataset", "predictor", "dataset-import-job/electricityusagedata"}
SkipNames == {"d1", "electricityusagedata"}
\* What a create function may return: any handle (or none) with any error.
SkipHandles == {NilPtr, "arn:aws:forecast:eu-west-1:000000000000:dataset/other"}
SkipResults == [arn : SkipHandles, err : {NilErr} \cup ApiErrors]
WaiterNames == {"dataset-import-job", "predictor", "forecast", "forecast-export-job"}

NoSkipIn == [resource |-> "", name |-> "", h |-> NoSkip]

InitIdle ==
    /\ arns = [r \in Resources |-> NilPtr]
    /\ arn = NilPtr
    /\ err = NilErr
    /\ fatalErr = NilErr
    /\ wkind = "none"
    /\ wname = ""
    /\ wstate = "idle"
    /\ wres = NilErr
    /\ tickC = 0
    /\ cancelled = FALSE
    /\ cancelAt = "never"
    /\ polls = 0
    /\ lastPoll = NoPoll
    /\ sawActive = FALSE
    /\ wexit = "none"
    /\ log = <<>>
    /\ failedStep = 0
    /\ lastCall = NoCall
    /\ created = [r \in Resources |-> NilPtr]
    /\ delCount = [r \in Resources |-> 0]
    /\ usedAfterDelete = {}
    /\ skipIn = NoSkipIn
    /\ skipOut = NoSkip
    /\ hcalls = 0
    /\ fired = 0
    /\ pollLog = <<>>

HarnessInit ==
    /\ region \in Regions
    /\ account \in Accounts
    /\ pc = "harness"
    /\ stage = 0
    /\ InitIdle

\* One run of skipIfAlreadyExists(resource, name, h), h() returning the pair h.
SkipStep(resource, name, h) ==
    /\ skipIn' = [resource |-> resource, name |-> name, h |-> h]
    /\ skipOut' = skipIfAlreadyExists(region, account, resource, name, h)
    /\ hcalls' = skipIfAlreadyExistsCalls

\* f.skipIfAlreadyExists(resource, name, h) where h() returns the pair h.
SkipCall(resource, name, h) ==
    /\ pc = "harness"
    /\ pc' = "skip"
    /\ SkipStep(resource, name, h)
    /\ UNCHANGED <<fvars, stage, arns, arn, err, fatalErr, wvars, cvars, hvars, pollLog>>

\* f.waitForActive(ctx, name, h) is entered.
WaitForActiveCall(name) ==
    /\ pc = "harness"
    /\ pc' = "waiter"
    /\ StartWaiter("active", name)
    /\ UNCHANGED <<fvars, stage, arns, arn, err, fatalErr, cvars, hvars, svars, pollLog>>

\* f.waitForDeleted(ctx, name, h) is entered.
WaitForDeletedCall(name) ==
    /\ pc = "harness"
    /\ pc' = "waiter"
    /\ StartWaiter("deleted", name)
    /\ UNCHANGED <<fvars, stage, arns, arn, err, fatalErr, cvars, hvars, svars, pollLog>>

\* The waiter handles a tick: h() returns p.
WaiterTick(p) ==
    /\ pc = "waiter"
    /\ HandleTick(p)
    /\ pollLog' = Append(pollLog, p)
    /\ UNCHANGED <<fvars, mvars, cvars, hvars, svars>>

\* The waiter leaves through the ctx.Done() case.
WaiterDone ==
    /\ pc = "waiter"
    /\ HandleDone
    /\ UNCHANGED <<fvars, mvars, cvars, hvars, svars, pollLog>>

\* The caller cancels ctx (or its deadline passes), before or during the wait.
Cancel ==
    /\ pc \in {"harness", "waiter"}
    /\ ~cancelled
    /\ cancelled' = TRUE
    /\ cancelAt' = wstate
    /\ UNCHANGED <<fvars, mvars, wvars, hvars, svars, pollLog>>

HarnessNext ==
    \/ \E r \in SkipResources, n \in SkipNames, h \in SkipResults : SkipCall(r, n, h)
    \/ \E n \in WaiterNames : WaitForActiveCall(n)
    \/ \E n \in WaiterNames : WaitForDeletedCall(n)
    \/ TimerFire
    \/ \E p \in PollResults : WaiterTick(p)
    \/ WaiterDone
    \/ Cancel

Harness == HarnessInit /\ [][HarnessNext]_vars

\* A select with ctx.Done() ready takes that case sooner or later: ticks are a
\* minute apart, so the ticker case is not ready every time the loop comes round.
HarnessFair == Harness /\ WF_vars(WaiterDone)

(***************************************************************************)
(* main and the Create* and Delete* methods.                               *)
(***************************************************************************)

\* Faulty variant of Main: the dataset group is deleted before the predictor.
MainDeleteGroupFirst ==
    << [op |-> "Create", res |-> "dataset", name |-> "electricityusagedata",
        parent |-> "", uses |-> {}],
       [op |-> "Create", res |-> "dataset-import-job",
        name |-> "import_electricityusagedata", parent |-> "electricityusagedata",
        uses |-> {"dataset"}],
       [op |-> "Create", res |-> "dataset-group", name |-> "electricityusagedatagroup",
        parent |-> "", uses |-> {"dataset"}],
       [op |-> "Create", res |-> "predictor", name |-> "electricityusagedata_predictor",
        parent |-> "", uses |-> {"dataset-group"}],
       [op |-> "Create", res |-> "forecast", name |-> "electricityusagedata_forecast",
        parent |-> "", uses |-> {"predictor"}],
       [op |-> "Create", res |-> "forecast-export-job",
        name |-> "export_electricityusagedata_forecast",
        parent |-> "electricityusagedata_forecast", uses |-> {"forecast"}],
       [op |-> "Delete", res |-> "forecast-export-job", name |-> "", parent |-> "",
        uses |-> {"forecast-export-job"}],
       [op |-> "Delete", res |-> "forecast", name |-> "", parent |-> "",
        uses |-> {"forecast"}],
       [op |-> "Delete", res |-> "dataset-group", name |-> "", parent |-> "",
        uses |-> {"dataset-group"}],
       [op |-> "Delete", res |-> "predictor", name |-> "", parent |-> "",
        uses |-> {"predictor"}],
       [op |-> "Delete", res |-> "dataset-import-job", name |-> "", parent |-> "",
        uses |-> {"dataset-import-job"}],
       [op |-> "Delete", res |-> "dataset", name |-> "", parent |-> "",
        uses |-> {"dataset"}] >>

\* main's calls in program order: the method's kind and resource, the name
\* and the parent's name it is given, and the handles of main it is passed.
Main ==
    << [op |-> "Create", res |-> "dataset", name |-> "electricityusagedata",
        parent |-> "", uses |-> {}],
       [op |-> "Create", res |-> "dataset-import-job",
        name |-> "import_electricityusagedata", parent |-> "electricityusagedata",
        uses |-> {"dataset"}],
       [op |-> "Create", res |-> "dataset-group", name |-> "electricityusagedatagroup",
        parent |-> "", uses |-> {"dataset"}],
       [op |-> "Create", res |-> "predictor", name |-> "electricityusagedata_predictor",
        parent |-> "", uses |-> {"dataset-group"}],
       [op |-> "Create", res |-> "forecast", name |-> "electricityusagedata_forecast",
        parent |-> "", uses |-> {"predictor"}],
       [op |-> "Create", res |-> "forecast-export-job",
        name |-> "export_electricityusagedata_forecast",
        parent |-> "electricityusagedata_forecast", uses |-> {"forecast"}],
       [op |-> "Delete", res |-> "forecast-export-job", name |-> "", parent |-> "",
        uses |-> {"forecast-export-job"}],
       [op |-> "Delete", res |-> "forecast", name |-> "", parent |-> "",
        uses |-> {"forecast"}],
       [op |-> "Delete", res |-> "predictor", name |-> "", parent |-> "",
        uses |-> {"predictor"}],
       [op |-> "Delete", res |-> "dataset-group", name |-> "", parent |-> "",
        uses |-> {"dataset-group"}],
       [op |-> "Delete", res |-> "dataset-import-job", name |-> "", parent |-> "",
        uses |-> {"dataset-import-job"}],
       [op |-> "Delete", res |-> "dataset", name |-> "", parent |-> "",
        uses |-> {"dataset"}] >>

\* The name of a resource in the service's operations (CreateX, DescribeX, DeleteX).
ApiName(res) ==
    CASE res = "dataset" -> "Dataset"
      [] res = "dataset-import-job" -> "DatasetImportJob"
      [] res = "dataset-group" -> "DatasetGroup"
      [] res = "predictor" -> "Predictor"
      [] res = "forecast" -> "Forecast"
      [] res = "forecast-export-job" -> "ForecastExportJob"

\* The resource argument a Create* method gives skipIfAlreadyExists.
ResourceTag(st) ==
    IF st.res \in {"dataset-import-job", "forecast-export-job"}
    THEN st.res \o "/" \o st.parent
    ELSE st.res

\* Faulty variant of CreateWaits: CreateForecast returns without waiting.
CreateWaitsNoForecast(res) ==
    res \in {"dataset-import-job", "predictor", "forecast-export-job"}

\* The Create* methods that call waitForActive after skipIfAlreadyExists.
CreateWaits(res) ==
    res \in {"dataset-import-job", "predictor", "forecast", "forecast-export-job"}

\* The Delete* methods that end in waitForDeleted.
DeleteWaits(res) ==
    res \in {"forecast-export-job", "forecast", "predictor", "dataset-import-job"}

\* The closure a Create* method passes as h: (nil, err) or (output's Arn, nil).
CreateClosure(out) ==
    IF out.err # NilErr THEN [arn |-> NilPtr, err |-> out.err]
    ELSE [arn |-> out.arn, err |-> NilErr]

\* The closure passed to a waiter: (nil, err) or (desc.Status, nil).
DescribeClosure(out) ==
    IF out.err # NilErr THEN [status |-> NilPtr, err |-> out.err]
    ELSE [status |-> out.status, err |-> NilErr]

\* What a waiting Create* method returns once waitForActive has returned werr,
\* a and e being its locals arn and err.  CreateForecastExportJob calls the
\* waiter as the init statement of its if and tests e, not the waiter's result.
CreateAfterWait(res, a, e, werr) ==
    IF res = "forecast-export-job"
    THEN IF e # NilErr THEN [arn |-> NilPtr, err |-> e]
         ELSE [arn |-> a, err |-> NilErr]
    ELSE IF werr # NilErr THEN [arn |-> NilPtr, err |-> werr]
    ELSE IF res = "predictor" THEN [arn |-> a, err |-> e]
    ELSE [arn |-> a, err |-> NilErr]

\* The handle the service returns from a successful Create call (opaque).
ServiceArn(res) == "arn:aws:forecast:service-assigned:" \o res

\* Errors a Create or a Delete call may end in (NilErr: it succeeds).
CallOutcomes == {NilErr} \cup ApiErrors

\* Faulty variant of MainArgs: DeleteForecast is given the predictor's handle.
MainArgsPredictorForForecast(st) ==
    IF st.op = "Delete" /\ st.res = "forecast" THEN {arns["predictor"]}
    ELSE {arns[u] : u \in st.uses}

\* The handles main passes to the method of the call st.
MainArgs(st) == {arns[u] : u \in st.uses}
DescribeOutcomes ==
    [status : Statuses, err : {NilErr}] \cup [status : {NilPtr}, err : ApiErrors]

\* main after a method returned r: log.Fatal(err), or the assignment of the
\* handle and the next statement.
MainCheck(res, r) ==
    IF r.err # NilErr
    THEN pc' = "fatal" /\ fatalErr' = r.err /\ UNCHANGED <<stage, arns>>
    ELSE /\ arns' = [arns EXCEPT ![res] = r.arn]
         /\ stage' = IF stage = Len(Main) THEN stage ELSE stage + 1
         /\ pc' = IF stage = Len(Main) THEN "done" ELSE "call"
         /\ UNCHANGED fatalErr

\* Bookkeeping of the remote call op on resource res, made inside method by
\* with the handles args and answered with the error e.
Record(op, res, by, args, e) ==
    /\ lastCall' = [op |-> op, res |-> res, by |-> by, args |-> args, err |-> e]
    /\ usedAfterDelete' = usedAfterDelete \cup
          {<<r, op, by>> : r \in {x \in Resources : delCount[x] > 0 /\ arns[x] \in args}}

\* Bookkeeping of the step at index idx of log ending, in failure or not.
MarkFailed(idx, failed) ==
    failedStep' = IF failed /\ failedStep = 0 THEN idx ELSE failedStep

Init ==
    /\ region \in Regions
    /\ account \in Accounts
    /\ pc = "call"
    /\ stage = 1
    /\ InitIdle

\* main calls a Create* method and the service answers its Create call with
\* the error e, or with a handle: skipIfAlreadyExists, then either the method
\* returns to main or it enters waitForActive.
CallCreate(e) ==
    /\ pc = "call"
    /\ Main[stage].op = "Create"
    /\ LET st == Main[stage]
           m == "Create" \o ApiName(st.res)
           h == CreateClosure([arn |-> ServiceArn(st.res), err |-> e])
           r == skipIfAlreadyExists(region, account, ResourceTag(st), st.name, h)
       IN /\ SkipStep(ResourceTag(st), st.name, h)
          /\ Record(m, st.res, m, MainArgs(st), e)
          /\ MarkFailed(Len(log) + 1, r.err # NilErr)
          /\ created' = IF r.err = NilErr THEN [created EXCEPT ![st.res] = r.arn]
                        ELSE created
          /\ IF r.err = NilErr /\ CreateWaits(st.res)
             THEN /\ log' = log \o << <<"create", st.res>>, <<"wait-active", st.res>> >>
                  /\ pc' = "wait"
                  /\ arn' = r.arn
                  /\ err' = r.err
                  /\ StartWaiter("active", st.res)
                  /\ UNCHANGED <<stage, arns, fatalErr>>
             ELSE /\ log' = Append(log, <<"create", st.res>>)
                  /\ MainCheck(st.res, r)
                  /\ UNCHANGED <<arn, err, wvars>>
    /\ UNCHANGED <<fvars, cvars, delCount, pollLog>>

\* waitForActive handles a tick: the Describe call with the method's arn is
\* answered with out; when the waiter returns, so does the method, to main.
PollActive(out) ==
    /\ pc = "wait"
    /\ wkind = "active"
    /\ HandleTick(DescribeClosure(out))
    /\ LET res == Main[stage].res
       IN /\ Record("Describe" \o ApiName(res), res, "Create" \o ApiName(res), {arn},
                    out.err)
          /\ IF wstate' = "returned"
             THEN /\ MarkFailed(Len(log), wres' # NilErr)
                  /\ MainCheck(res, CreateAfterWait(res, arn, err, wres'))
             ELSE UNCHANGED <<failedStep, pc, stage, arns, fatalErr>>
    /\ UNCHANGED <<fvars, arn, err, cvars, log, created, delCount, svars, pollLog>>

\* main calls a Delete* method with its handle and the service answers the
\* Delete call with the error e: the method returns it, returns nil, or
\* enters waitForDeleted.
CallDelete(e) ==
    /\ pc = "call"
    /\ Main[stage].op = "Delete"
    /\ LET st == Main[stage]
           m == "Delete" \o ApiName(st.res)
           h == CHOOSE a \in MainArgs(st) : TRUE
       IN /\ Record(m, st.res, m, {h}, e)
          /\ delCount' = [delCount EXCEPT ![st.res] = @ + 1]
          /\ MarkFailed(Len(log) + 1, e # NilErr)
          /\ IF e = NilErr /\ DeleteWaits(st.res)
             THEN /\ log' = log \o << <<"delete", st.res>>, <<"wait-deleted", st.res>> >>
                  /\ pc' = "wait"
                  /\ arn' = h
                  /\ StartWaiter("deleted", st.res)
                  /\ UNCHANGED <<stage, arns, fatalErr>>
             ELSE /\ log' = Append(log, <<"delete", st.res>>)
                  /\ MainCheck(st.res, [arn |-> arns[st.res], err |-> e])
                  /\ UNCHANGED <<arn, wvars>>
    /\ UNCHANGED <<fvars, err, cvars, created, svars, pollLog>>

\* waitForDeleted handles a tick: the Describe call with the method's handle
\* is answered with out; the method returns what the waiter returns.
PollDeleted(out) ==
    /\ pc = "wait"
    /\ wkind = "deleted"
    /\ HandleTick(DescribeClosure(out))
    /\ LET res == Main[stage].res
       IN /\ Record("Describe" \o ApiName(res), res, "Delete" \o ApiName(res), {arn},
                    out.err)
          /\ IF wstate' = "returned"
             THEN /\ MarkFailed(Len(log), wres' # NilErr)
                  /\ MainCheck(res, [arn |-> arns[res], err |-> wres'])
             ELSE UNCHANGED <<failedStep, pc, stage, arns, fatalErr>>
    /\ UNCHANGED <<fvars, arn, err, cvars, log, created, delCount, svars, pollLog>>

Next ==
    \/ \E e \in CallOutcomes : CallCreate(e)
    \/ \E out \in DescribeOutcomes : PollActive(out)
    \/ \E e \in CallOutcomes : CallDelete(e)
    \/ \E out \in DescribeOutcomes : PollDeleted(out)
    \/ TimerFire

Spec == Init /\ [][Next]_vars

\* main and the harness side by side: every behaviour is one of Spec or one
\* of Harness.
AllInit == Init \/ HarnessInit
AllNext == Next \/ HarnessNext
All == AllInit /\ [][AllNext]_vars

(***************************************************************************)
(* Properties of main (specification Spec).                                *)
(***************************************************************************)

\* The steps of a run in the order the pipeline is described to take them.
PipelineOrder ==
    << <<"create", "dataset">>,
       <<"create", "dataset-import-job">>, <<"wait-active", "dataset-import-job">>,
       <<"create", "dataset-group">>,
       <<"create", "predictor">>, <<"wait-active", "predictor">>,
       <<"create", "forecast">>, <<"wait-active", "forecast">>,
       <<"create", "forecast-export-job">>, <<"wait-active", "forecast-export-job">>,
       <<"delete", "forecast-export-job">>, <<"wait-deleted", "forecast-export-job">>,
       <<"delete", "forecast">>, <<"wait-deleted", "forecast">>,
       <<"delete", "predictor">>, <<"wait-deleted", "predictor">>,
       <<"delete", "dataset-group">>,
       <<"delete", "dataset-import-job">>, <<"wait-deleted", "dataset-import-job">>,
       <<"delete", "dataset">> >>

IsPrefix(s, t) == Len(s) <= Len(t) /\ SubSeq(t, 1, Len(s)) = s

DeleteStarted == \E i \in 1..Len(log) : log[i][1] = "delete"

\* C1: fail-fast.  Once a step (a create call, an active-wait, a delete call
\* or a delete-wait) has ended in failure, the process has aborted and no
\* later step has been started: the failed step is the last one of the run.
C1_FailFast ==
    failedStep # 0 => pc = "fatal" /\ Len(log) = failedStep

\* C7: pipeline ordering.  The steps of every run are a prefix of the fixed
\* sequence; a waiter polls only while main is inside the step that is last
\* in that sequence so far; and a new step starts only when no waiter is
\* still polling, so at most one call or waiter is in progress.
C7_OrderingState ==
    /\ IsPrefix(log, PipelineOrder)
    /\ wstate = "polling" =>
          /\ pc = "wait"
          /\ log[Len(log)] \in {<<"wait-active", wname>>, <<"wait-deleted", wname>>}
    /\ pc = "done" => log = PipelineOrder

C7_Ordering ==
    /\ []C7_OrderingState
    /\ [][Len(log') > Len(log) => wstate # "polling"]_vars

C7_Witness == pc = "done" /\ log = PipelineOrder /\ failedStep = 0

\* C10: no cleanup on error.  If the first failure of a run is in a create
\* call or an active-wait, no delete is ever started in that run; if it is in
\* a delete call or a delete-wait, no further step follows it.
C10_NoCleanupOnError ==
    failedStep # 0 =>
        /\ log[failedStep][1] \in {"create", "wait-active"} => ~DeleteStarted
        /\ log[failedStep][1] \in {"delete", "wait-deleted"} => Len(log) = failedStep

HandleCalls ==
    {"Describe" \o ApiName(r) : r \in Resources} \cup {"Delete" \o ApiName(r) : r \in Resources}

\* The parts of the handle lifecycle that do not speak of use after delete:
\* a describe or delete call is passed exactly the handle its resource's
\* create-or-skip returned, and a handle is passed to its delete call at most
\* once, exactly once in a run that completes.
HandlePassing ==
    /\ lastCall.op \in HandleCalls => lastCall.args = {created[lastCall.res]}
    /\ \A r \in Resources : delCount[r] <= 1
    /\ pc = "done" => \A r \in Resources : delCount[r] = 1

\* C9 as stated: handle lifecycle, with no remote call given a handle once
\* that handle has been passed to its delete call.
C9_NoUseAfterDelete ==
    HandlePassing /\ usedAfterDelete = {}

\* C9 amended: handle lifecycle; the only remote calls given a handle after
\* its delete call are the describe polls of that resource's own delete-wait,
\* made inside the same Delete method.
C9_HandleLifecycle ==
    /\ HandlePassing
    /\ \A u \in usedAfterDelete :
          u[2] = "Describe" \o ApiName(u[1]) /\ u[3] = "Delete" \o ApiName(u[1])

C9_Witness ==
    /\ pc = "done"
    /\ \A r \in Resources : delCount[r] = 1 /\ created[r] # NilPtr
    /\ <<"forecast", "DescribeForecast", "DeleteForecast">> \in usedAfterDelete

(***************************************************************************)
(* Properties of the helpers (specifications Harness and HarnessFair).     *)
(***************************************************************************)

ActiveReturned == wkind = "active" /\ wstate = "returned"

\* C2 as stated: waitForActive returns success if and only if a poll made
\* before it returned reported "ACTIVE", whatever the cancellation timing.
C2_SuccessIffActive ==
    wkind = "active" =>
        /\ sawActive => wstate = "returned" /\ wres = NilErr
        /\ wstate = "returned" => (wres = NilErr <=> sawActive)

\* C2 amended: waitForActive returns success if and only if a poll made
\* before it returned reported "ACTIVE" or it left through the ctx.Done()
\* case; an observed "ACTIVE" always yields a successful return.
C2_SuccessIffActiveOrCancelled ==
    wkind = "active" =>
        /\ sawActive => wstate = "returned" /\ wres = NilErr /\ wexit = "ticker.C"
        /\ wstate = "returned" => (wres = NilErr <=> (sawActive \/ wexit = "ctx.Done"))

C2_Witness ==
    /\ ActiveReturned
    /\ polls > 0
    /\ ~sawActive
    /\ wexit = "ctx.Done"
    /\ wres = NilErr

C2_WitnessActive ==
    /\ ActiveReturned
    /\ polls = MaxPolls
    /\ sawActive
    /\ cancelled
    /\ wres = NilErr

\* C3: failure classification of waitForActive.  A poll that reports
\* "CREATE_FAILED" makes the waiter return the error "creating is failed"; a
\* poll that reports a status neither starting with "CREATE" nor equal to
\* "ACTIVE" makes it return "<name> is not creating but <status>"; a poll that
\* reports a status starting with "CREATE" other than "CREATE_FAILED" does
\* not end the wait.
C3_FailureClassification ==
    (wkind = "active" /\ polls > 0 /\ lastPoll.err = NilErr) =>
        LET st == lastPoll.status
            ended == wstate = "returned" /\ wexit = "ticker.C"
        IN /\ st = "CREATE_FAILED" => ended /\ wres = "creating is failed"
           /\ (~HasPrefix(st, "CREATE") /\ st # "ACTIVE") =>
                 ended /\ wres = wname \o " is not creating but " \o st
           /\ (HasPrefix(st, "CREATE") /\ st # "CREATE_FAILED") => ~ended

C3_Witness ==
    /\ ActiveReturned
    /\ polls = 3
    /\ lastPoll.status = "CREATE_FAILED"
    /\ wres = "creating is failed"

C3_WitnessUnexpected ==
    /\ ActiveReturned
    /\ lastPoll.status = "SUSPENDED"
    /\ wres = "predictor is not creating but SUSPENDED"

DeletedReturned == wkind = "deleted" /\ wstate = "returned"

\* C4: waitForDeleted fails with the error "deleting is failed" as soon as a
\* poll reports the status "DELETE_FAILED", and polls no further.
C4_DeleteFailedEndsWait ==
    (wkind = "deleted" /\ polls > 0 /\ lastPoll.status = "DELETE_FAILED") =>
        /\ wstate = "returned"
        /\ wexit = "ticker.C"
        /\ wres = "deleting is failed"

\* C5: waitForDeleted returns success at the first poll that fails with a
\* "not found" error, the very first poll included, and calls the poll
\* function no more after it.
C5_NotFoundState ==
    (wkind = "deleted" /\ polls > 0 /\ lastPoll.err = NotFound) =>
        /\ wstate = "returned"
        /\ wexit = "ticker.C"
        /\ wres = NilErr

C5_NotFoundIsSuccess ==
    /\ []C5_NotFoundState
    /\ [][(wkind = "deleted" /\ lastPoll.err = NotFound) =>
             (polls' = polls /\ lastPoll' = lastPoll /\ wres' = wres)]_vars

C5_Witness ==
    /\ DeletedReturned
    /\ polls = 1
    /\ lastPoll.err = NotFound
    /\ wres = NilErr

\* C6: when the create function fails with "already exists",
\* skipIfAlreadyExists returns no error and the non-nil handle
\* arn:aws:forecast:<region>:<account>:<resource>/<name>, whatever handle the
\* create function returned with its error; for region us-east-1, account
\* 111122223333, resource dataset and name d1 that is
\* arn:aws:forecast:us-east-1:111122223333:dataset/d1.
C6_SynthesizedHandle ==
    (pc = "skip" /\ skipIn.h.err = AlreadyExists) =>
        /\ skipOut.err = NilErr
        /\ skipOut.arn # NilPtr
        /\ skipOut.arn =
              "arn:aws:forecast:" \o region \o ":" \o account \o ":"
                  \o skipIn.resource \o "/" \o skipIn.name
        /\ (region = "us-east-1" /\ account = "111122223333"
              /\ skipIn.resource = "dataset" /\ skipIn.name = "d1") =>
                 skipOut.arn = "arn:aws:forecast:us-east-1:111122223333:dataset/d1"

C6_Witness ==
    /\ pc = "skip"
    /\ skipIn.h.err = AlreadyExists
    /\ skipIn.h.arn # NilPtr
    /\ skipOut =
          [arn |-> "arn:aws:forecast:us-east-1:111122223333:dataset/d1", err |-> NilErr]

\* The poll results that make a waiter return an error.
PollFails(kind, p) ==
    IF p.err # NilErr THEN ~(kind = "deleted" /\ p.err = NotFound)
    ELSE IF kind = "active"
         THEN p.status # "ACTIVE" /\ (~HasPrefix(p.status, "CREATE") \/ p.status = "CREATE_FAILED")
         ELSE ~HasPrefix(p.status, "DELETE") \/ p.status = "DELETE_FAILED"

\* C8 as stated: a waiter whose context is cancelled while it is polling
\* returns successfully.
C8_CancelledReturnsSuccess ==
    (cancelAt = "polling" /\ wstate = "returned") => wres = NilErr

\* C8 amended: a waiter that leaves through its ctx.Done() case returns
\* success, and only a cancelled context lets it leave that way; a waiter
\* returns an error only from the ticker case, for a poll that reported a
\* poll error or a failure status (also when that tick is handled after the
\* cancellation); and a waiter polling under a cancelled context eventually
\* returns.
C8_CancelState ==
    wstate = "returned" =>
        /\ wexit = "ctx.Done" => (wres = NilErr /\ cancelled)
        /\ wres # NilErr => (wexit = "ticker.C" /\ polls > 0 /\ PollFails(wkind, lastPoll))

C8_CancellationIsSuccess ==
    /\ []C8_CancelState
    /\ (cancelled /\ wstate = "polling") ~> (wstate = "returned")

C8_Witness ==
    /\ cancelAt = "polling"
    /\ wstate = "returned"
    /\ wexit = "ctx.Done"
    /\ polls > 0
    /\ wres = NilErr

(***************************************************************************)
(* Properties of the helpers and of main together (specification All).     *)
(***************************************************************************)

InMain == pc \in {"call", "wait", "fatal", "done"}

\* C11: skipIfAlreadyExists calls the create function exactly once.  If that
\* fails with an error other than "already exists", the result is that error
\* with a nil handle, and the Create* method returns it to main without
\* starting its active-wait: no wait step and no describe call follows.  If
\* it succeeds, the handle returned is the one the create function returned.
C11_CreateOnceAndPropagate ==
    /\ hcalls = IF skipIn = NoSkipIn THEN 0 ELSE 1
    /\ skipIn.h.err \notin {NilErr, AlreadyExists} =>
          /\ skipOut = [arn |-> NilPtr, err |-> skipIn.h.err]
          /\ InMain =>
                /\ pc = "fatal"
                /\ fatalErr = skipIn.h.err
                /\ wstate # "polling"
                /\ lastCall.op = "Create" \o ApiName(lastCall.res)
                /\ log[Len(log)] = <<"create", lastCall.res>>
                /\ arns[lastCall.res] = NilPtr
    /\ skipIn.h.err = NilErr =>
          skipOut = [arn |-> skipIn.h.arn, err |-> NilErr]

C11_Witness ==
    /\ pc = "fatal"
    /\ lastCall.op = "CreatePredictor"
    /\ skipIn.resource = "predictor"
    /\ skipIn.h.err = OtherErr
    /\ fatalErr = OtherErr
    /\ hcalls = 1

C11_WitnessPartialHandle ==
    /\ pc = "skip"
    /\ skipIn.h.err = NotFound
    /\ skipIn.h.arn # NilPtr
    /\ skipOut = [arn |-> NilPtr, err |-> NotFound]

C11_WitnessSuccess ==
    /\ pc = "skip"
    /\ skipIn.h.err = NilErr
    /\ skipIn.h.arn # NilPtr
    /\ skipOut.arn = skipIn.h.arn

(***************************************************************************)
(* Properties of the waiters' polling (specification Harness).             *)
(***************************************************************************)

\* The statuses on which a waiter of the given kind is to go on polling.
InProgress(kind, st) ==
    IF kind = "active" THEN HasPrefix(st, "CREATE") /\ st # "CREATE_FAILED"
    ELSE HasPrefix(st, "DELETE") /\ st # "DELETE_FAILED"

\* The poll results that are to end a wait: an error, or a status that is
\* not an in-progress one.
Terminal(kind, p) == p.err # NilErr \/ ~InProgress(kind, p.status)

\* Every tick the ticker has sent is still buffered or was answered by
\* exactly one poll; so no poll is made before the first tick.
OnePollPerTick ==
    /\ polls + tickC = fired
    /\ Len(pollLog) = polls

\* C12: polls are tick-driven and one per tick.  A waiter calls the poll
\* function only for a tick it takes from the ticker, once per tick, and never
\* after it has returned; so when the poll results are k-1 in-progress
\* statuses followed by a terminal result, it returns at the k-th poll.
C12_ReturnsAtFirstTerminal ==
    /\ OnePollPerTick
    /\ \A i \in 1..Len(pollLog) :
          Terminal(wkind, pollLog[i]) =>
              (i = polls /\ wstate = "returned" /\ wexit = "ticker.C")
    /\ (wstate = "returned" /\ wexit = "ticker.C") =>
          (polls > 0 /\ Terminal(wkind, pollLog[polls]))

C12_TickDriven ==
    /\ []C12_ReturnsAtFirstTerminal
    /\ [][wstate = "returned" => (polls' = polls /\ pollLog' = pollLog)]_vars

\* The statement of C12 for waitForActive alone.
C12_ActiveOnly ==
    /\ [](wkind = "active" => C12_ReturnsAtFirstTerminal)
    /\ [][wstate = "returned" => (polls' = polls /\ pollLog' = pollLog)]_vars

C12_ActiveScenario ==
    /\ ActiveReturned
    /\ pollLog = << [status |-> "CREATE_PENDING", err |-> NilErr],
                    [status |-> "CREATE_IN_PROGRESS", err |-> NilErr],
                    [status |-> "ACTIVE", err |-> NilErr] >>
    /\ fired = 3
    /\ polls = 3
    /\ wres = NilErr

\* The poll errors a waiter of the given kind is to return as they are.
FailingPollError(kind, e) == e # NilErr /\ ~(kind = "deleted" /\ e = NotFound)

\* C13: poll errors are not retried.  A poll error in waitForActive, and a
\* poll error other than "not found" in waitForDeleted, makes the waiter
\* return that same error from that poll, which is its last: no poll that
\* ended in an error is followed by another poll.  In waitForActive "not
\* found" is such an error.
C13_ErrorEndsWait ==
    /\ (polls > 0 /\ FailingPollError(wkind, lastPoll.err)) =>
          /\ wstate = "returned"
          /\ wexit = "ticker.C"
          /\ wres = lastPoll.err
    /\ \A i \in 1..Len(pollLog) : pollLog[i].err # NilErr => i = polls
    /\ Len(pollLog) > 0 => pollLog[Len(pollLog)] = lastPoll

C13_PollErrorsNotRetried ==
    /\ []C13_ErrorEndsWait
    /\ [][wstate = "returned" => (polls' = polls /\ wres' = wres)]_vars

C13_Witness ==
    /\ ActiveReturned
    /\ polls = 2
    /\ lastPoll.err = NotFound
    /\ wres = NotFound

C13_WitnessDeleted ==
    /\ DeletedReturned
    /\ polls = 2
    /\ lastPoll.err = AlreadyExists
    /\ wres = AlreadyExists

\* C14: waitForDeleted returns "<name> is not deleting but <status>" at the
\* first poll that succeeds with a status not starting with "DELETE"
\* ("ACTIVE" for one), and a poll that reports a status starting with "DELETE"
\* other than "DELETE_FAILED" does not end the wait.
C14_DeletedUnexpectedState ==
    (wkind = "deleted" /\ polls > 0 /\ lastPoll.err = NilErr) =>
        LET st == lastPoll.status
            ended == wstate = "returned" /\ wexit = "ticker.C"
        IN /\ ~HasPrefix(st, "DELETE") =>
                 /\ ended
                 /\ wres = wname \o " is not deleting but " \o st
                 /\ \A i \in 1..(Len(pollLog) - 1) :
                        pollLog[i].err = NilErr /\ HasPrefix(pollLog[i].status, "DELETE")
           /\ (HasPrefix(st, "DELETE") /\ st # "DELETE_FAILED") => ~ended

C14_Witness ==
    /\ DeletedReturned
    /\ wname = "forecast"
    /\ polls = 1
    /\ lastPoll.status = "ACTIVE"
    /\ wres = "forecast is not deleting but ACTIVE"

C14_WitnessKeepsPolling ==
    /\ wkind = "deleted"
    /\ wstate = "polling"
    /\ polls = 2
    /\ lastPoll.status = "DELETE_IN_PROGRESS"

\* C15: waiter termination.  A waiter returns at the poll that yields a
\* terminal status, a terminal failure status or a poll error, and on
\* cancellation; it returns for no other reason, so a resource that stays in
\* an in-progress status under a context that is never cancelled is polled
\* at every tick, whatever the number of polls so far.
C15_TerminationState ==
    /\ (polls > 0 /\ Terminal(wkind, lastPoll)) => wstate = "returned"
    /\ wstate = "returned" =>
          \/ wexit = "ctx.Done" /\ cancelled
          \/ wexit = "ticker.C" /\ polls > 0 /\ Terminal(wkind, lastPoll)
    /\ (wstate = "polling" /\ tickC = 1 /\ polls < MaxPolls) =>
          \A p \in PollResults : ENABLED WaiterTick(p)

C15_WaiterTermination ==
    /\ []C15_TerminationState
    /\ [][(wstate = "polling" /\ ~cancelled' /\ polls' = polls) =>
              wstate' = "polling"]_vars

\* The part of C15 that holds of the code: the same with "DELETE_FAILED"
\* counted as in progress, as the comparison in waitForDeleted leaves it.
C15_TerminationAsCoded ==
    LET term == Terminal(wkind, lastPoll) /\
                ~(wkind = "deleted" /\ lastPoll.err = NilErr
                                    /\ lastPoll.status = "DELETE_FAILED")
    IN /\ (polls > 0 /\ term) => wstate = "returned"
       /\ wstate = "returned" =>
             \/ wexit = "ctx.Done" /\ cancelled
             \/ wexit = "ticker.C" /\ polls > 0 /\ term

\* A waiter still polling after MaxPolls in-progress results, never cancelled.
C15_StillPolling ==
    /\ wstate = "polling"
    /\ ~cancelled
    /\ polls = MaxPolls
    /\ \A i \in 1..Len(pollLog) : ~Terminal(wkind, pollLog[i])

\* The two errors the code recovers from: "already exists" from a create
\* call, and "not found" from a describe call made by a delete method, which
\* is a poll of its waitForDeleted.
Recovered(c) ==
    \/ c.op = "Create" \o ApiName(c.res) /\ IsAlreadyExists(c.err)
    \/ /\ c.op = "Describe" \o ApiName(c.res)
       /\ c.by = "Delete" \o ApiName(c.res)
       /\ IsNotFound(c.err)

\* C16: an error of a remote call aborts the pipeline with that error unless
\* it is "already exists" from a create call or "not found" from a
\* delete-wait poll, and those two do not abort it; so "not found" from a
\* Delete call, and "already exists" from a describe or delete call, abort.
C16_OnlyRecoveredErrors ==
    lastCall.err # NilErr =>
        IF Recovered(lastCall)
        THEN pc # "fatal"
        ELSE pc = "fatal" /\ fatalErr = lastCall.err

\* The cases C16 names, which abort as it says.
C16_DeleteNotFoundAborts ==
    (lastCall.err # NilErr /\ lastCall.op = "Delete" \o ApiName(lastCall.res)) =>
        (pc = "fatal" /\ fatalErr = lastCall.err)

C16_WitnessDeleteNotFound ==
    /\ lastCall.op = "DeleteDatasetGroup"
    /\ lastCall.err = NotFound
    /\ pc = "fatal"
    /\ fatalErr = NotFound

C16_WitnessRecovered ==
    /\ lastCall.op = "DescribeForecast"
    /\ lastCall.by = "DeleteForecast"
    /\ lastCall.err = NotFound
    /\ pc = "call"

\* The resources whose creation C17 says is followed by an active-wait.
WaitedResources ==
    {"dataset-import-job", "predictor", "forecast", "forecast-export-job"}

\* The index in log of the latest create step (0: none yet).
LastCreate ==
    LET idx == {i \in 1..Len(log) : log[i][1] = "create"}
    IN IF idx = {} THEN 0 ELSE CHOOSE i \in idx : \A j \in idx : j <= i

\* The latest create step found its resource existing and skipped it.
CreateSkipped == LastCreate > 0 /\ skipIn # NoSkipIn /\ IsAlreadyExists(skipIn.h.err)

\* C17: when the create call of dataset-import-job, predictor, forecast or
\* forecast-export-job is skipped because the resource exists, the method
\* still runs waitForActive, polling the synthesized handle, and main has no
\* handle of the resource before that wait has returned; a poll of that wait
\* reporting a status that is not "ACTIVE" and does not start with "CREATE"
\* ends it with "<name> is not creating but <status>".  No active-wait is
\* ever run for dataset or dataset-group.
C17_WaitAfterSkip ==
    /\ \A i \in 1..Len(log) : log[i][1] = "wait-active" => log[i][2] \in WaitedResources
    /\ (CreateSkipped /\ log[LastCreate][2] \in WaitedResources) =>
          LET res == log[LastCreate][2]
              waiting == Len(log) = LastCreate + 1
              st == lastPoll.status
          IN /\ Len(log) > LastCreate
             /\ log[LastCreate + 1] = <<"wait-active", res>>
             /\ skipOut.arn = SprintfArn(region, account, skipIn.resource, skipIn.name)
             /\ waiting =>
                   /\ wkind = "active" /\ wname = res
                   /\ arn = skipOut.arn
                   /\ wstate = "polling" => (pc = "wait" /\ arns[res] = NilPtr)
                   /\ polls > 0 =>
                         /\ lastCall.op = "Describe" \o ApiName(res)
                         /\ lastCall.args = {skipOut.arn}
                   /\ arns[res] # NilPtr => (wstate = "returned" /\ polls > 0)
                   /\ (polls > 0 /\ lastPoll.err = NilErr /\ st # "ACTIVE"
                                 /\ ~HasPrefix(st, "CREATE")) =>
                         /\ wstate = "returned"
                         /\ wres = res \o " is not creating but " \o st

C17_Witness ==
    /\ CreateSkipped
    /\ log[Len(log)] = <<"wait-active", "forecast">>
    /\ polls = 2
    /\ lastPoll.status = "DELETE_PENDING"
    /\ wres = "forecast is not creating but DELETE_PENDING"
    /\ pc = "fatal"

C17_WitnessNoWait ==
    /\ CreateSkipped
    /\ log[Len(log)] = <<"create", "dataset-group">>
    /\ arns["dataset-group"] = skipOut.arn
    /\ pc = "call"

====
